---- MODULE Spec2Model ----
(***************************************************************************)
(* Room assignment (src/solver.py, solve_assignment).                      *)
(*                                                                         *)
(* One call of solve_assignment is modelled as a state machine:            *)
(*   Building --Build--> Solving --Solve--> Terminated                     *)
(*     Terminated --Extract--> Result      (status OPTIMAL or FEASIBLE)    *)
(*     Terminated --ReturnNone--> Result   (any other status)              *)
(* The CP-SAT engine is an external collaborator.  It is modelled by what  *)
(* it guarantees: on OPTIMAL / FEASIBLE the variable values it hands back  *)
(* satisfy every constraint that was added to the model, and on OPTIMAL    *)
(* the objective is the minimum over all such value assignments.  Which    *)
(* solution it returns, and whether it stops at the time limit, is a       *)
(* nondeterministic choice.                                                *)
(***************************************************************************)
EXTENDS Integers, Sequences, FiniteSets, TLC

VARIABLES
    people,           \* input dict person id -> info, in insertion order
    rooms,            \* input dict room id -> info, in insertion order
    forbidden_pairs,  \* input list of pairs of ids
    corridors,        \* input list of corridor labels
    required_teachers_per_corridor, \* input dict corridor -> list of ids
    pc,               \* position inside solve_assignment
    model,            \* the CpModel handed to the solver: its solution set
    result_status,    \* what solver.Solve returned
    xval,             \* solver.Value(x[p, r]) for every p, r
    objval,           \* solver.ObjectiveValue()
    result,           \* the return value
    clock,            \* time.time()
    solution_count,   \* ProgressPrinter._solution_count
    start,            \* ProgressPrinter._start
    last_print,       \* ProgressPrinter._last_print
    update_interval,  \* ProgressPrinter._update_interval
    printed,          \* the progress lines printed so far
    incumbents        \* number of incumbents the solver has found

vars == <<people, rooms, forbidden_pairs, corridors,
          required_teachers_per_corridor, pc, model, result_status,
          xval, objval, result, clock, solution_count, start, last_print,
          update_interval, printed, incumbents>>

\* the state of the progress printer
progress == <<clock, solution_count, start, last_print, update_interval,
              printed, incumbents>>

\* the state of the call of solve_assignment
call == <<people, rooms, forbidden_pairs, corridors,
          required_teachers_per_corridor, pc, model, result_status,
          xval, objval, result>>

inputs == <<people, rooms, forbidden_pairs, corridors,
            required_teachers_per_corridor>>

-----------------------------------------------------------------------------
(* Bounds of the explored inputs *)

MaxCapacity == 2
MaxSmallGroup == 2
MaxTime == 6
MaxIncumbents == 4
MaxInterval == 3

(* Program constants *)

PENALTY_CLASS_MIX_PER_EXTRA_CLASS == 3
PENALTY_EMPTY_BED == 0
PENALTY_CROSS_GENDER_ROOM == 1000
TEACHER_SHARED_ROOM_PENALTY == 2
PENALTY_TEACHER_WRONG_CORRIDOR == 5
DEFAULT_PROGRESS_INTERVAL == 5

None == "None"

\* small_group_max is None or an integer k: <<>> or <<k>>
NoCap == <<>>
Cap(k) == <<k>>

PersonNames == <<"p1", "p2", "p3">>
PersonLabels == <<"Ali", "Bilal", "Cem">>
MaxPersons == Len(PersonNames)
RoomNames == <<"r1", "r2", "r3">>
\* the third room is used by InitThreeRooms only
MaxRooms == Len(RoomNames) - 1
CorridorLabels == {"A", "B"}
ClassIds == {"X", "Y"}

genders == {"m", "w"}

-----------------------------------------------------------------------------
(* Helpers *)

Range(s) == {s[i] : i \in DOMAIN s}

RECURSIVE Sum(_, _)
Sum(f, S) ==
    IF S = {} THEN 0
    ELSE LET e == CHOOSE e \in S : TRUE IN f[e] + Sum(f, S \ {e})

Max(a, b) == IF a >= b THEN a ELSE b

SetSum(A, B) == {a + b : a \in A, b \in B}

Scale(w, A) == {w * a : a \in A}

RECURSIVE SumSets(_, _)
\* all sums obtained by taking one value of F[e] for every e of S
SumSets(F, S) ==
    IF S = {} THEN {0}
    ELSE LET e == CHOOSE e \in S : TRUE IN SetSum(F[e], SumSets(F, S \ {e}))

-----------------------------------------------------------------------------
(* Derived lists, solver.py lines 77-85 *)

persons == [i \in DOMAIN people |-> people[i].id]
room_ids == [i \in DOMAIN rooms |-> rooms[i].id]

PersonSet == Range(persons)
RoomSet == Range(room_ids)

info(p) == LET i == CHOOSE i \in DOMAIN people : people[i].id = p IN people[i]
room(r) == LET i == CHOOSE i \in DOMAIN rooms : rooms[i].id = r IN rooms[i]

students == {p \in PersonSet : info(p).role = "student"}
teachers == {p \in PersonSet : info(p).role = "teacher"}

classes == {info(p).class_id : p \in {q \in students : info(q).class_id # None}}

CorridorSet == Range(corridors)

RoomsOn(c) == {r \in RoomSet : room(r).corridor = c}

ClassMembers(k) == {p \in students : info(p).class_id = k}

\* required_teachers_per_corridor.get(c, [])
RequiredOn(c) ==
    IF c \in DOMAIN required_teachers_per_corridor
    THEN Range(required_teachers_per_corridor[c]) ELSE {}

-----------------------------------------------------------------------------
(* Decision variables x[p, r], line 88 *)

XDomain == PersonSet \X RoomSet
Occupancy(x, r) == Sum([p \in PersonSet |-> x[<<p, r>>]], PersonSet)

-----------------------------------------------------------------------------
(* Hard constraints, lines 96-149.  Each is the condition the constraint    *)
(* puts on the values of x; auxiliary Boolean variables that occur in no    *)
(* other constraint are quantified where they are used.                    *)

\* mutant: "<= 1" written for "== 1"
AssignedAtMostOnce(row) == Sum(row, RoomSet) <= 1

\* 1) lines 96-98, for the row x[p, .] of one person:
\* sum(x[p, r] for r in room_ids) == 1
AssignedOnce(row) == Sum(row, RoomSet) = 1

\* the values of x that satisfy constraint 1): every row x[p, .] does
AssignedX ==
    LET rows == {row \in [RoomSet -> {0, 1}] : AssignedOnce(row)}
    IN  {[pr \in XDomain |-> f[pr[1]][pr[2]]] : f \in [PersonSet -> rows]}

\* mutant: capacity off by one
CapacityPlusOne(x) ==
    \A r \in RoomSet : Occupancy(x, r) <= room(r).capacity + 1

\* 2) lines 100-102: sum(x[p, r] for p in persons) <= capacity
CapacityRespected(x) ==
    \A r \in RoomSet : Occupancy(x, r) <= room(r).capacity

\* mutant: the "at most one gender" constraint of line 106 left out
GenderFlagsUnbounded(x, r) ==
    {y \in [genders -> {0, 1}] :
        \A p \in PersonSet : x[<<p, r>>] <= y[info(p).gender]}

\* 3) lines 104-109: the values of y[r, .] the model admits for room r
GenderFlags(x, r) ==
    {y \in [genders -> {0, 1}] :
        /\ y["m"] + y["w"] <= 1
        /\ \A p \in PersonSet : x[<<p, r>>] <= y[info(p).gender]}

GenderSeparated(x) == \A r \in RoomSet : GenderFlags(x, r) # {}

\* mutant: "<= 2" written for "<= 1"
ForbiddenPairsLoose(x) ==
    \A i \in DOMAIN forbidden_pairs :
        LET a == forbidden_pairs[i][1]
            b == forbidden_pairs[i][2]
        IN  (a \in PersonSet /\ b \in PersonSet) =>
                \A r \in RoomSet : x[<<a, r>>] + x[<<b, r>>] <= 2

\* 4) lines 111-115
ForbiddenPairsSplit(x) ==
    \A i \in DOMAIN forbidden_pairs :
        LET a == forbidden_pairs[i][1]
            b == forbidden_pairs[i][2]
        IN  (a \in PersonSet /\ b \in PersonSet) =>
                \A r \in RoomSet : x[<<a, r>>] + x[<<b, r>>] <= 1

\* mutant: the factor (1 - x[p, r]) left out, so the bound is never binding
SmallGroupNeverBinding(x) ==
    \A p \in PersonSet :
        LET kmax == info(p).small_group_max
        IN  kmax # NoCap =>
                \A r \in RoomSet :
                    Occupancy(x, r) - kmax[1] <= room(r).capacity

\* a bound on every room, whether p is in it or not
SmallGroupInEveryRoom(x, p, r) ==
    Occupancy(x, r) <= info(p).small_group_max[1]

\* line 123, for a person p with a cap and a room r
SmallGroupAt(x, p, r) ==
    Occupancy(x, r) - info(p).small_group_max[1]
        <= (1 - x[<<p, r>>]) * room(r).capacity

\* 5) lines 117-123
SmallGroupRespected(x) ==
    \A p \in PersonSet :
        LET kmax == info(p).small_group_max
        IN  kmax # NoCap => \A r \in RoomSet : SmallGroupAt(x, p, r)

\* mutant: the sum runs over all persons instead of the teachers
CorridorCoveredByAnyone(x) ==
    \A c \in CorridorSet :
        (teachers # {} /\ RoomsOn(c) # {}) =>
            Sum([pr \in PersonSet \X RoomsOn(c) |-> x[pr]],
                PersonSet \X RoomsOn(c)) >= 1

\* 6) lines 125-129: at least one teacher on every listed corridor
CorridorCovered(x) ==
    \A c \in CorridorSet :
        (teachers # {} /\ RoomsOn(c) # {}) =>
            Sum([tr \in teachers \X RoomsOn(c) |-> x[tr]],
                teachers \X RoomsOn(c)) >= 1

\* mutant: "<= 1" written for "== 1"
RequiredTeachersAtMostOnce(x) ==
    \A c \in CorridorSet :
        \A t \in RequiredOn(c) :
            t \in teachers =>
                Sum([r \in RoomsOn(c) |-> x[<<t, r>>]], RoomsOn(c)) <= 1

\* 6) lines 130-132: the teachers required on a listed corridor
RequiredTeachersPlaced(x) ==
    \A c \in CorridorSet :
        \A t \in RequiredOn(c) :
            t \in teachers =>
                Sum([r \in RoomsOn(c) |-> x[<<t, r>>]], RoomsOn(c)) = 1

\* mutant: the constraint has_teacher + has_student <= 1 of line 149 left out
RoleFlagsUnbounded(x, r) ==
    {h \in [{"teacher", "student"} -> {0, 1}] :
        /\ \A t \in teachers : h["teacher"] >= x[<<t, r>>]
        /\ \A s \in students : h["student"] >= x[<<s, r>>]}

\* 8) lines 141-149: has_teacher[r], has_student[r]
RoleFlags(x, r) ==
    {h \in [{"teacher", "student"} -> {0, 1}] :
        /\ \A t \in teachers : h["teacher"] >= x[<<t, r>>]
        /\ \A s \in students : h["student"] >= x[<<s, r>>]
        /\ h["teacher"] + h["student"] <= 1}

RolesSeparated(x) == \A r \in RoomSet : RoleFlags(x, r) # {}

\* constraints 2) to 8), on the values of x that satisfy constraint 1)
HardConstraints(x) ==
    /\ CapacityRespected(x)
    /\ GenderSeparated(x)
    /\ ForbiddenPairsSplit(x)
    /\ SmallGroupRespected(x)
    /\ CorridorCovered(x)
    /\ RequiredTeachersPlaced(x)
    /\ RolesSeparated(x)

-----------------------------------------------------------------------------
(* Objective, lines 151-253.  For given values of x, each operator is the   *)
(* set of values the auxiliary variable of a term can take in a solution.  *)

\* class flags that no student raises
ClassFlagsUnbounded(x, r) == [classes -> {0, 1}]

\* 7) lines 134-139: z[r, .]
ClassFlags(x, r) ==
    {z \in [classes -> {0, 1}] :
        \A k \in classes : \A p \in ClassMembers(k) : z[k] >= x[<<p, r>>]}

\* a count of the classes beyond the second
ExtraClassesBeyondTwo(x, r) ==
    LET n == Cardinality(classes)
    IN  {e \in 0 .. Max(0, n - 1) :
            \E z \in ClassFlags(x, r), occupied \in {0, 1} :
                /\ occupied = 1 => Occupancy(x, r) >= 1
                /\ occupied = 0 => Occupancy(x, r) = 0
                /\ classes # {} => e >= Sum(z, classes) - 2
                /\ e <= n * occupied}

\* a) lines 209-220: extra_classes[r]
ExtraClasses(x, r) ==
    LET n == Cardinality(classes)
    IN  {e \in 0 .. Max(0, n - 1) :
            \E z \in ClassFlags(x, r), occupied \in {0, 1} :
                /\ occupied = 1 => Occupancy(x, r) >= 1
                /\ occupied = 0 => Occupancy(x, r) = 0
                /\ classes # {} => e >= Sum(z, classes) - 1
                /\ e <= n * occupied}

ClassMixTerms(x, r) ==
    IF PENALTY_CLASS_MIX_PER_EXTRA_CLASS > 0 /\ classes # {}
    THEN Scale(PENALTY_CLASS_MIX_PER_EXTRA_CLASS, ExtraClasses(x, r))
    ELSE IF ExtraClasses(x, r) # {} THEN {0} ELSE {}

\* b) lines 222-226
EmptyBedTerms(x, r) ==
    IF PENALTY_EMPTY_BED > 0
    THEN {(room(r).capacity - Occupancy(x, r)) * PENALTY_EMPTY_BED}
    ELSE {0}

\* c) lines 228-235: bad_gender_mix[r]
BothGender(x, r) ==
    {b \in {0, 1} :
        \E y \in GenderFlags(x, r) :
            /\ y["m"] + y["w"] - b <= 1
            /\ b <= y["m"]
            /\ b <= y["w"]}

CrossGenderTerms(x, r) ==
    IF PENALTY_CROSS_GENDER_ROOM > 0
    THEN Scale(PENALTY_CROSS_GENDER_ROOM, BothGender(x, r))
    ELSE {0}

\* d) lines 237-243: extra_teachers[r]
ExtraTeachers(x, r) ==
    {e \in 0 .. Cardinality(teachers) :
        e >= Sum([t \in teachers |-> x[<<t, r>>]], teachers) - 1}

TeacherSharingTerms(x, r) ==
    IF TEACHER_SHARED_ROOM_PENALTY > 0 /\ teachers # {}
    THEN Scale(TEACHER_SHARED_ROOM_PENALTY, ExtraTeachers(x, r))
    ELSE {0}

\* lines 163-172: class_on_c[c, .]
ClassOnCorridor(x, c) ==
    {ck \in [classes -> {0, 1}] :
        \A k \in classes : \A r \in RoomsOn(c) : \A p \in ClassMembers(k) :
            ck[k] >= x[<<p, r>>]}

\* lines 175-181: teacher_on_c[., c]
TeacherOnCorridor(x, c) ==
    {tc \in [teachers -> {0, 1}] :
        \A t \in teachers : \A r \in RoomsOn(c) : tc[t] >= x[<<t, r>>]}

\* lines 184-191: the teachers that get mismatch variables
BoundTeachers ==
    {t \in teachers : info(t).class_id # None /\ info(t).class_id \in classes}

\* lines 192-200: teacher_mismatch[., c]; m <= tc, m <= 1 - ck, m >= tc - ck
Mismatch(x, c) ==
    {m \in [BoundTeachers -> {0, 1}] :
        \E tc \in TeacherOnCorridor(x, c), ck \in ClassOnCorridor(x, c) :
            \A t \in BoundTeachers :
                /\ m[t] <= tc[t]
                /\ m[t] <= 1 - ck[info(t).class_id]
                /\ m[t] >= tc[t] - ck[info(t).class_id]}

\* e) lines 245-248
WrongCorridorTerms(x, c) ==
    IF PENALTY_TEACHER_WRONG_CORRIDOR > 0
    THEN {PENALTY_TEACHER_WRONG_CORRIDOR * Sum(m, BoundTeachers) :
            m \in Mismatch(x, c)}
    ELSE IF Mismatch(x, c) # {} THEN {0} ELSE {}

RoomTerms(x, r) ==
    SetSum(SetSum(ClassMixTerms(x, r), EmptyBedTerms(x, r)),
           SetSum(CrossGenderTerms(x, r), TeacherSharingTerms(x, r)))

\* lines 250-253: the values sum(objective_terms) takes over the solutions
\* that have these values of x
ObjectiveValues(x) ==
    SetSum(SumSets([r \in RoomSet |-> RoomTerms(x, r)], RoomSet),
           SumSets([c \in CorridorSet |-> WrongCorridorTerms(x, c)],
                   CorridorSet))

\* the values the class-mix terms of the objective sum to (lines 208-220)
\* in the solutions that have these values of x and the objective value v
ClassMixPart(x, v) ==
    LET other(r) == SetSum(EmptyBedTerms(x, r),
                           SetSum(CrossGenderTerms(x, r),
                                  TeacherSharingTerms(x, r)))
        rest == SetSum(SumSets([r \in RoomSet |-> other(r)], RoomSet),
                       SumSets([c \in CorridorSet |->
                                   WrongCorridorTerms(x, c)], CorridorSet))
    IN  {cm \in SumSets([r \in RoomSet |-> ClassMixTerms(x, r)], RoomSet) :
            v - cm \in rest}

\* lines 75-253: the model, as the set of its solutions projected on what
\* the program reads back (the values of x and the objective value)
BuildModel ==
    UNION {{[x |-> x, objective |-> v] : v \in ObjectiveValues(x)} :
             x \in {xx \in AssignedX : HardConstraints(xx)}}

MinObjective(m) ==
    CHOOSE v \in {s.objective : s \in m} :
        \A s \in m : v <= s.objective

-----------------------------------------------------------------------------
(* Inputs *)

Person(i, g, ro, k, sg) ==
    [id |-> PersonNames[i], name |-> PersonLabels[i], gender |-> g,
     role |-> ro, class_id |-> k, small_group_max |-> sg]

Room(i, cap, c) ==
    [id |-> RoomNames[i], name |-> RoomNames[i], capacity |-> cap,
     corridor |-> c]

\* sorted({v["corridor"] for v in rooms.values()}), streamlit_app.py line 609
DerivedCorridors(rs) ==
    LET cs == {rs[i].corridor : i \in DOMAIN rs}
    IN  IF cs = {"A", "B"} THEN <<"A", "B">>
        ELSE IF cs = {"A"} THEN <<"A">>
        ELSE IF cs = {"B"} THEN <<"B">>
        ELSE <<>>

NoRequired == [c \in {} |-> <<>>]

PeopleOf(n, G, RO, K) ==
    {[i \in 1 .. n |-> Person(i, a[i].gender, a[i].role, a[i].class_id, NoCap)] :
        a \in [1 .. n -> [gender : G, role : RO, class_id : K]]}

RoomsOf(m, CAP, CO) ==
    {[i \in 1 .. m |-> Room(i, a[i].capacity, a[i].corridor)] :
        a \in [1 .. m -> [capacity : CAP, corridor : CO]]}

\* the first person gets the cap sg
WithCap(ps, sg) ==
    [i \in DOMAIN ps |->
        IF i = 1 THEN [ps[i] EXCEPT !.small_group_max = sg] ELSE ps[i]]

\* Room rules: genders, roles, capacities, a forbidden pair, a small group
InitRules ==
    \E n \in 0 .. MaxPersons, m \in 0 .. MaxRooms :
    \E ps \in PeopleOf(n, genders, {"student", "teacher"}, {None}),
       rs \in RoomsOf(m, 1 .. MaxCapacity, {"A"}),
       sg \in {NoCap} \cup {Cap(k) : k \in -1 .. MaxSmallGroup},
       fp \in {<<>>, <<<<"p2", "zz">>, <<"p1", "p2">>>>} :
        /\ people = WithCap(ps, sg)
        /\ rooms = rs
        /\ forbidden_pairs = fp
        /\ corridors = DerivedCorridors(rs)
        /\ required_teachers_per_corridor = NoRequired

\* a teacher has no class or the class "X"
ClassOK(ps) ==
    \A i \in DOMAIN ps : ps[i].role = "teacher" => ps[i].class_id # "Y"

RequiredChoices ==
    {NoRequired,
     [c \in {"B"} |-> <<"p1">>],
     [c \in {"A", "B"} |-> <<"p1">>],
     [c \in {"B"} |-> <<"p2", "zz">>]}

\* Corridors and classes: roles, class ids, corridor labels, the corridors
\* list and the required teachers
InitCorridors ==
    \E n \in 1 .. MaxPersons, m \in 1 .. MaxRooms :
    \E ps \in PeopleOf(n, {"m"}, {"student", "teacher"}, {None} \cup ClassIds),
       rs \in RoomsOf(m, {MaxCapacity}, CorridorLabels),
       rq \in RequiredChoices :
    \E cs \in {DerivedCorridors(rs), <<"B">>} :
        /\ ClassOK(ps)
        /\ people = ps
        /\ rooms = rs
        /\ forbidden_pairs = <<>>
        /\ corridors = cs
        /\ required_teachers_per_corridor = rq

\* Two rooms on corridor A and one on corridor B, as the application passes
\* them: the corridors list is derived from the rooms
InitThreeRooms ==
    \E ps \in PeopleOf(3, {"m"}, {"student", "teacher"}, {None} \cup ClassIds),
       rq \in RequiredChoices :
    LET rs == <<Room(1, MaxCapacity, "A"), Room(2, 1, "A"), Room(3, 1, "B")>>
    IN  /\ ClassOK(ps)
        /\ people = ps
        /\ rooms = rs
        /\ forbidden_pairs = <<>>
        /\ corridors = DerivedCorridors(rs)
        /\ required_teachers_per_corridor = rq

\* the same persons in the opposite order
Reversed(ps) == [i \in DOMAIN ps |-> ps[Len(ps) + 1 - i]]

\* the first person's info without the key "name"
Nameless(ps) ==
    [i \in DOMAIN ps |->
        IF i = 1 THEN [f \in DOMAIN ps[i] \ {"name"} |-> ps[i][f]] ELSE ps[i]]

\* Order of the people mapping: ids not in sorted order, a person without
\* a name
InitOrder ==
    \E n \in 2 .. MaxPersons :
    \E ps \in PeopleOf(n, genders, {"student", "teacher"}, {None}) :
    \E pp \in {Reversed(ps), Nameless(Reversed(ps))} :
    LET rs == <<Room(1, MaxCapacity, "A"), Room(2, MaxCapacity, "A")>>
    IN  /\ people = pp
        /\ rooms = rs
        /\ forbidden_pairs = <<>>
        /\ corridors = DerivedCorridors(rs)
        /\ required_teachers_per_corridor = NoRequired

InitInputs == InitRules \/ InitCorridors \/ InitThreeRooms \/ InitOrder

\* lines 27-32, ProgressPrinter.__init__ at time t
NewPrinter(t, interval) ==
    /\ clock = t
    /\ solution_count = 0
    /\ start = t
    /\ last_print = t
    /\ update_interval = interval
    /\ printed = <<>>
    /\ incumbents = 0

\* the call is followed up to its return value; the progress printer is
\* followed on its own in SpecProgress
Init ==
    /\ InitInputs
    /\ pc = "Building"
    /\ model = {}
    /\ result_status = "NONE"
    /\ xval = <<>>
    /\ objval = 0
    /\ result = [none |-> TRUE]
    /\ NewPrinter(0, DEFAULT_PROGRESS_INTERVAL)

-----------------------------------------------------------------------------
(* Steps of solve_assignment *)

\* lines 75-253
Build ==
    /\ pc = "Building"
    /\ model' = BuildModel
    /\ pc' = "Solving"
    /\ UNCHANGED <<inputs, progress, result_status, xval, objval, result>>

\* line 263, solver.Solve(model, progress_cb): the search ends with a proof
\* of optimality or of infeasibility, or at the time limit
SolveOptimal ==
    /\ pc = "Solving"
    /\ \E s \in model :
        /\ s.objective = MinObjective(model)
        /\ xval' = s.x
        /\ objval' = s.objective
    /\ result_status' = "OPTIMAL"
    /\ pc' = "Terminated"
    /\ UNCHANGED <<inputs, progress, model, result>>

SolveFeasible ==
    /\ pc = "Solving"
    /\ \E s \in model :
        /\ xval' = s.x
        /\ objval' = s.objective
    /\ result_status' = "FEASIBLE"
    /\ pc' = "Terminated"
    /\ UNCHANGED <<inputs, progress, model, result>>

SolveInfeasible ==
    /\ pc = "Solving"
    /\ model = {}
    /\ result_status' = "INFEASIBLE"
    /\ pc' = "Terminated"
    /\ UNCHANGED <<inputs, progress, model, xval, objval, result>>

SolveUnknown ==
    /\ pc = "Solving"
    /\ result_status' = "UNKNOWN"
    /\ pc' = "Terminated"
    /\ UNCHANGED <<inputs, progress, model, xval, objval, result>>

Solve == SolveOptimal \/ SolveFeasible \/ SolveInfeasible \/ SolveUnknown

\* a check that lets only a proved optimum through
OnlyOptimalAccepted == {"OPTIMAL"}

\* line 267: the statuses after which the values are read
AcceptedStatuses == {"OPTIMAL", "FEASIBLE"}

\* lines 267-268
ReturnNone ==
    /\ pc = "Terminated"
    /\ result_status \notin AcceptedStatuses
    /\ result' = [none |-> TRUE]
    /\ pc' = "Result"
    /\ UNCHANGED <<inputs, progress, model, result_status, xval, objval>>

\* lines 275-282; info.get("name", p)
Snapshot(p) ==
    [id |-> p,
     name |-> IF "name" \in DOMAIN info(p) THEN info(p).name ELSE p,
     gender |-> info(p).gender,
     role |-> info(p).role, class_id |-> info(p).class_id]

\* a list for every room, filled or not
AllocationWithEmptyRooms(xv) ==
    LET Idx(r) == {i \in DOMAIN persons : xv[<<persons[i], r>>] = 1}
        Nth(r, j) == CHOOSE i \in Idx(r) :
                        Cardinality({h \in Idx(r) : h < i}) = j - 1
    IN  [r \in RoomSet |->
            [j \in 1 .. Cardinality(Idx(r)) |-> Snapshot(persons[Nth(r, j)])]]

\* lines 271-285: rooms in room_ids order, persons in persons order; a room
\* gets a key when its first occupant is appended
Allocation(xv) ==
    LET occupied == {r \in RoomSet : \E p \in PersonSet : xv[<<p, r>>] = 1}
        pick(r, i) == xv[<<persons[i], r>>] = 1
        Idx(r) == {i \in DOMAIN persons : pick(r, i)}
        Nth(r, j) == CHOOSE i \in Idx(r) :
                        Cardinality({h \in Idx(r) : h < i}) = j - 1
    IN  [r \in occupied |->
            [j \in 1 .. Cardinality(Idx(r)) |-> Snapshot(persons[Nth(r, j)])]]

\* lines 270-302
Extract ==
    /\ pc = "Terminated"
    /\ result_status \in AcceptedStatuses
    /\ result' = [none |-> FALSE,
                  allocation |-> Allocation(xval),
                  objective |-> objval,
                  status |-> result_status,
                  stats |-> [persons |-> Len(persons), rooms |-> Len(room_ids)]]
    /\ pc' = "Result"
    /\ UNCHANGED <<inputs, progress, model, result_status, xval, objval>>

Next == Build \/ Solve \/ ReturnNone \/ Extract

Spec == Init /\ [][Next]_vars

-----------------------------------------------------------------------------
(* The progress printer during solver.Solve (lines 23-47, 260-263).  The   *)
(* solver calls OnSolutionCallback once for every incumbent it finds;      *)
(* between two calls any amount of time may pass.                          *)

\* an interval measured from the creation of the printer
OnSolutionCallbackSinceStart ==
    /\ incumbents < MaxIncumbents
    /\ incumbents' = incumbents + 1
    /\ solution_count' = solution_count + 1
    /\ IF clock - start >= update_interval
       THEN /\ printed' = Append(printed,
                               [elapsed |-> clock - start,
                                count |-> solution_count + 1,
                                at |-> clock,
                                found |-> incumbents + 1])
            /\ last_print' = clock
       ELSE UNCHANGED <<printed, last_print>>
    /\ UNCHANGED <<call, clock, start, update_interval>>

\* lines 34-46; at and found record when the line was printed and how many
\* incumbents the solver had found by then
OnSolutionCallback ==
    /\ incumbents < MaxIncumbents
    /\ incumbents' = incumbents + 1
    /\ solution_count' = solution_count + 1
    /\ IF clock - last_print >= update_interval
       THEN /\ printed' = Append(printed,
                               [elapsed |-> clock - start,
                                count |-> solution_count + 1,
                                at |-> clock,
                                found |-> incumbents + 1])
            /\ last_print' = clock
       ELSE UNCHANGED <<printed, last_print>>
    /\ UNCHANGED <<call, clock, start, update_interval>>

\* time passes
Tick ==
    /\ clock < MaxTime
    /\ clock' = clock + 1
    /\ UNCHANGED <<call, solution_count, start, last_print, update_interval,
                   printed, incumbents>>

\* line 260: the printer is created just before solver.Solve, for a model
\* with solutions
InitProgress ==
    /\ people = <<Person(1, "m", "student", None, NoCap)>>
    /\ rooms = <<Room(1, 1, "A")>>
    /\ forbidden_pairs = <<>>
    /\ corridors = <<"A">>
    /\ required_teachers_per_corridor = NoRequired
    /\ pc = "Solving"
    /\ model = BuildModel
    /\ result_status = "NONE"
    /\ xval = <<>>
    /\ objval = 0
    /\ result = [none |-> TRUE]
    /\ \E t \in 0 .. 1, interval \in 0 .. MaxInterval : NewPrinter(t, interval)

NextProgress == OnSolutionCallback \/ Tick

SpecProgress == InitProgress /\ [][NextProgress]_vars

-----------------------------------------------------------------------------
(* What a returned result shows *)

Returned == pc = "Result" /\ ~result.none

Occupants(r) ==
    IF r \in DOMAIN result.allocation THEN result.allocation[r] ELSE <<>>

OccupantIds(r) == {Occupants(r)[j].id : j \in DOMAIN Occupants(r)}

\* the places (room, position) where the id p is listed
Places(p) ==
    {rj \in UNION {{<<r, j>> : j \in DOMAIN result.allocation[r]} :
                     r \in DOMAIN result.allocation} :
        result.allocation[rj[1]][rj[2]].id = p}

ListedIds == UNION {OccupantIds(r) : r \in DOMAIN result.allocation}

\* the corridor labels carried by at least one room
RoomCorridors == {room(r).corridor : r \in RoomSet}

TeacherIn(r) == \E j \in DOMAIN Occupants(r) : Occupants(r)[j].role = "teacher"
StudentIn(r) == \E j \in DOMAIN Occupants(r) : Occupants(r)[j].role = "student"

-----------------------------------------------------------------------------
(* C1: in every returned result each input person id is listed exactly     *)
(* once, in exactly one room, and no other id is listed.                   *)
C1_EveryPersonExactlyOnce ==
    Returned =>
        /\ \A p \in PersonSet : Cardinality(Places(p)) = 1
        /\ ListedIds \subseteq PersonSet

\* three persons returned in two different rooms
C1_Witness ==
    /\ Returned
    /\ Len(persons) = 3
    /\ Cardinality(DOMAIN result.allocation) = 2

(* C2: in every returned result no room lists more occupants than its      *)
(* capacity.                                                               *)
C2_CapacityRespected ==
    Returned =>
        \A r \in RoomSet : Len(Occupants(r)) <= room(r).capacity

\* more persons than the first room holds, and the first room is full
C2_Witness ==
    /\ Returned
    /\ Len(room_ids) = 2
    /\ Len(persons) > room("r1").capacity
    /\ Len(Occupants("r1")) = room("r1").capacity

(* C3: in every returned result no room lists both a person of gender m    *)
(* and a person of gender w, whatever their roles.                         *)
C3_OneGenderPerRoom ==
    Returned =>
        \A r \in RoomSet :
            ~ \E i, j \in DOMAIN Occupants(r) :
                Occupants(r)[i].gender = "m" /\ Occupants(r)[j].gender = "w"

\* two teachers of different gender and a room that would hold both
C3_Witness ==
    /\ Returned
    /\ \E p, q \in teachers : info(p).gender = "m" /\ info(q).gender = "w"
    /\ Len(persons) = 3
    /\ \E r \in RoomSet : room(r).capacity >= 2

(* C4: in every returned result no room lists both a teacher and a         *)
(* student.                                                                *)
C4_RolesNeverMixed ==
    Returned => \A r \in RoomSet : ~(TeacherIn(r) /\ StudentIn(r))

\* a teacher and a student of the same gender, and a room for two
C4_Witness ==
    /\ Returned
    /\ \E t \in teachers, s \in students : info(t).gender = info(s).gender
    /\ \E r \in RoomSet : room(r).capacity >= 2

(* C5: in every returned result the two ids of a forbidden pair are never  *)
(* listed in the same room.                                                *)
C5_ForbiddenPairsApart ==
    Returned =>
        \A i \in DOMAIN forbidden_pairs :
            \A r \in RoomSet :
                ~ {forbidden_pairs[i][1], forbidden_pairs[i][2]}
                    \subseteq OccupantIds(r)

\* a forbidden pair of two persons who could otherwise share a room
C5_Witness ==
    /\ Returned
    /\ forbidden_pairs # <<>>
    /\ {"p1", "p2"} \subseteq PersonSet
    /\ info("p1").gender = info("p2").gender
    /\ info("p1").role = info("p2").role
    /\ info("p1").small_group_max = NoCap
    /\ \E r \in RoomSet : room(r).capacity >= 2

(* C6: in every returned result the room that lists a person with          *)
(* small_group_max = k lists at most k occupants in total.                 *)
C6_SmallGroupRespected ==
    Returned =>
        \A p \in PersonSet :
            info(p).small_group_max # NoCap =>
                \A r \in RoomSet :
                    p \in OccupantIds(r) =>
                        Len(Occupants(r)) <= info(p).small_group_max[1]

\* a person with cap 1 alone in a room for two, a like person elsewhere
C6_Witness ==
    /\ Returned
    /\ Len(persons) >= 2
    /\ info("p1").small_group_max = Cap(1)
    /\ info("p1").gender = info("p2").gender
    /\ info("p1").role = info("p2").role
    /\ \E r \in RoomSet : "p1" \in OccupantIds(r) /\ room(r).capacity >= 2

(* C7 as claimed: when the input has a teacher, every corridor label that  *)
(* some room carries has a teacher among the occupants of its rooms,       *)
(* whatever the corridors list holds.                                      *)
C7_EveryRoomCorridorCovered ==
    (Returned /\ teachers # {}) =>
        \A c \in RoomCorridors : \E r \in RoomsOn(c) : TeacherIn(r)

(* C7 amended: when the input has a teacher, every label of the corridors  *)
(* list that some room carries has a teacher among the occupants of its    *)
(* rooms.                                                                  *)
C7_ListedCorridorsCovered ==
    (Returned /\ teachers # {}) =>
        \A c \in CorridorSet :
            RoomsOn(c) # {} => \E r \in RoomsOn(c) : TeacherIn(r)

\* two listed corridors with rooms, covered, and a student placed as well
C7_Witness ==
    /\ Returned
    /\ students # {}
    /\ Cardinality({c \in CorridorSet : RoomsOn(c) # {}}) = 2
    /\ \A c \in CorridorSet : \E r \in RoomsOn(c) : TeacherIn(r)

(* C8 as claimed: every entry (corridor c, id t) of                        *)
(* required_teachers_per_corridor is honoured: t is listed in exactly one  *)
(* room whose corridor is c.                                               *)
C8_EveryRequiredEntryHonoured ==
    Returned =>
        \A c \in DOMAIN required_teachers_per_corridor :
            \A t \in RequiredOn(c) :
                Cardinality({r \in RoomsOn(c) : t \in OccupantIds(r)}) = 1

(* C8 amended: every entry (c, t) whose corridor c is in the corridors     *)
(* list and whose id t is an input person with role teacher is honoured:   *)
(* t is listed in exactly one room whose corridor is c.                    *)
C8_RequiredTeachersOnCorridor ==
    Returned =>
        \A c \in CorridorSet :
            \A t \in RequiredOn(c) \cap teachers :
                Cardinality({r \in RoomsOn(c) : t \in OccupantIds(r)}) = 1

\* teacher p1 required on the listed corridor B, with rooms on A as well
\* and a second teacher there
C8_Witness ==
    /\ Returned
    /\ "p1" \in teachers
    /\ "B" \in CorridorSet
    /\ "p1" \in RequiredOn("B")
    /\ \E r \in RoomsOn("B") : "p1" \in OccupantIds(r)
    /\ \E r \in RoomsOn("A") : TeacherIn(r)

-----------------------------------------------------------------------------
(* The penalty terms of the specification's table, recomputed from the     *)
(* returned allocation                                                     *)

StudentClassesIn(r) ==
    {Occupants(r)[j].class_id :
        j \in {i \in DOMAIN Occupants(r) :
                 /\ Occupants(r)[i].role = "student"
                 /\ Occupants(r)[i].class_id # None}}

TeacherCountIn(r) ==
    Cardinality({j \in DOMAIN Occupants(r) : Occupants(r)[j].role = "teacher"})

ClassMixOf(r) == Max(0, Cardinality(StudentClassesIn(r)) - 1)

EmptyBedsOf(r) == room(r).capacity - Len(Occupants(r))

CrossGenderOf(r) ==
    IF \E i, j \in DOMAIN Occupants(r) :
            Occupants(r)[i].gender = "m" /\ Occupants(r)[j].gender = "w"
    THEN 1 ELSE 0

TeacherSharingOf(r) == Max(0, TeacherCountIn(r) - 1)

\* class k has a student in a room of corridor c
ClassPresentOn(k, c) == \E r \in RoomsOn(c) : k \in StudentClassesIn(r)

\* teacher t, whose class has students, lies on corridor c and no student
\* of that class does
WrongCorridor(t, c) ==
    /\ t \in BoundTeachers
    /\ \E r \in RoomsOn(c) : t \in OccupantIds(r)
    /\ ~ClassPresentOn(info(t).class_id, c)

WrongCorridorCount(C) ==
    Cardinality({tc \in teachers \X C : WrongCorridor(tc[1], tc[2])})

ClassSplitOf(k) ==
    Max(0, Cardinality({c \in RoomCorridors : ClassPresentOn(k, c)}) - 1)

RoomPenalties ==
    Sum([r \in RoomSet |->
            3 * ClassMixOf(r) + 0 * EmptyBedsOf(r)
            + 1000 * CrossGenderOf(r) + 2 * TeacherSharingOf(r)], RoomSet)

RecomputedObjective ==
    RoomPenalties + 5 * WrongCorridorCount(RoomCorridors)
    + 4 * Sum([k \in classes |-> ClassSplitOf(k)], classes)

\* the corridors list is the one the application passes
\* (streamlit_app.py line 609)
CorridorsAsDerived == corridors = DerivedCorridors(rooms)

(* C9: the weighted sum of the six penalty terms (class mix 3, empty bed   *)
(* 0, cross-gender 1000, teacher room sharing 2, teacher wrong corridor 5, *)
(* class split across corridors 4), recomputed from the returned           *)
(* allocation, equals the returned objective.  Stated for the results the  *)
(* solver proved optimal (no auxiliary variable is left above its          *)
(* minimum), with the corridors list derived from the rooms, and where no  *)
(* class is split over corridors (the term the code does not build is 0).  *)
C9_ObjectiveIsRecomputedSum ==
    (/\ Returned
     /\ result.status = "OPTIMAL"
     /\ CorridorsAsDerived
     /\ \A k \in classes : ClassSplitOf(k) = 0) =>
        result.objective = RecomputedObjective

(* C10: the objective holds a penalty of 5 for a teacher t bound to a      *)
(* class with students and a corridor c exactly if t lies on c and no      *)
(* student of that class does; the solver cannot avoid it.  With the       *)
(* other terms of the code at their values, the objective of a result      *)
(* proved optimal is their sum plus 5 for every such (t, c).  Stated with  *)
(* the corridors list derived from the rooms.                              *)
C10_WrongCorridorPenalised ==
    (Returned /\ result.status = "OPTIMAL" /\ CorridorsAsDerived) =>
        result.objective = RoomPenalties + 5 * WrongCorridorCount(CorridorSet)

\* Scenario D: teacher p1 of class X is required on corridor B while the
\* only student of class X lies on corridor A; the result is returned as
\* optimal with objective 0
C10_ScenarioD ==
    /\ Returned
    /\ result.status = "OPTIMAL"
    /\ corridors = <<"A", "B">>
    /\ "p1" \in RequiredOn("B")
    /\ WrongCorridor("p1", "B")
    /\ result.objective = 0

-----------------------------------------------------------------------------
(* C11: the objective holds, for every class k, 4 times the number of      *)
(* corridors hosting a student of k beyond the first; as every other term  *)
(* is at least 0, the objective of a result proved optimal is at least 4   *)
(* for every such extra corridor.  Stated with the corridors list derived  *)
(* from the rooms.                                                         *)
C11_ClassSplitPenalised ==
    (Returned /\ result.status = "OPTIMAL" /\ CorridorsAsDerived) =>
        result.objective >= 4 * Sum([k \in classes |-> ClassSplitOf(k)], classes)

\* two students of class X and no teacher, a room on corridor A and one on
\* corridor B, each large enough for both: the allocation that splits the
\* class over the two corridors is returned as optimal with objective 0
C11_SplitClassCostsNothing ==
    /\ Returned
    /\ result.status = "OPTIMAL"
    /\ CorridorsAsDerived
    /\ teachers = {}
    /\ \A r \in RoomSet : room(r).capacity >= Len(persons)
    /\ ClassSplitOf("X") = 1
    /\ result.objective = 0

-----------------------------------------------------------------------------
(* C12: solve_assignment returns a result with an allocation exactly if    *)
(* the solver ended with status OPTIMAL or FEASIBLE.  No result exists      *)
(* before the solver has ended; after an end with INFEASIBLE or UNKNOWN    *)
(* the return value is None and carries no allocation; a returned result   *)
(* has the solver's status, which is OPTIMAL or FEASIBLE, and the          *)
(* allocation read from the solver's values.                               *)
C12_ResultIffOptimalOrFeasible ==
    /\ pc # "Result" => result = [none |-> TRUE]
    /\ pc = "Result" =>
        /\ ~result.none <=> result_status \in {"OPTIMAL", "FEASIBLE"}
        /\ result.none => result = [none |-> TRUE]
        /\ ~result.none =>
            /\ result.status = result_status
            /\ result.status \in {"OPTIMAL", "FEASIBLE"}
            /\ result.allocation = Allocation(xval)
            /\ result.objective = objval

\* the search stopped at the time limit although the model has solutions:
\* None is returned, no allocation
C12_Witness ==
    /\ pc = "Result"
    /\ result_status = "UNKNOWN"
    /\ model # {}
    /\ persons # <<>>
    /\ result.none

-----------------------------------------------------------------------------
(* C13: called with no people or with no rooms, solve_assignment returns   *)
(* None: it never returns a result (such as one with an empty allocation)  *)
(* for an empty input.                                                     *)
C13_EmptyInputReturnsNone ==
    (pc = "Result" /\ (persons = <<>> \/ room_ids = <<>>)) => result.none

\* no people and at least one room: the model is built, it has the empty
\* assignment as its only solution, and a result with an empty allocation
\* and objective 0 is returned as optimal
C13_EmptyAllocationReturned ==
    /\ persons = <<>>
    /\ room_ids # <<>>
    /\ model = {[x |-> <<>>, objective |-> 0]}
    /\ Returned
    /\ result.status = "OPTIMAL"
    /\ result.allocation = <<>>
    /\ result.objective = 0

-----------------------------------------------------------------------------
\* the rooms have fewer beds than there are persons
TooFewBeds ==
    Sum([r \in RoomSet |-> room(r).capacity], RoomSet) < Len(persons)

(* C14 as stated: whenever the capacities of the rooms sum to less than    *)
(* the number of persons, the solver ends with status INFEASIBLE and the   *)
(* return value is None, whatever the other inputs are.                    *)
C14_TooFewBedsEndsInfeasible ==
    (TooFewBeds /\ pc \in {"Terminated", "Result"}) =>
        result_status = "INFEASIBLE" /\ result.none

(* C14: whenever the capacities of the rooms sum to less than the number   *)
(* of persons, the model has no solution, the solver ends with status      *)
(* INFEASIBLE, or with UNKNOWN when the time limit stops it before the     *)
(* proof, and the return value is None, whatever the other inputs are.     *)
C14_TooFewBedsReturnsNone ==
    TooFewBeds =>
        /\ pc # "Building" => model = {}
        /\ pc \in {"Terminated", "Result"} =>
                result_status \in {"INFEASIBLE", "UNKNOWN"}
        /\ result.none

\* three persons of one gender and role, no pair or group rule, beds for
\* two: the solver proved the model infeasible and None was returned
C14_Witness ==
    /\ TooFewBeds
    /\ Len(persons) = MaxPersons
    /\ room_ids # <<>>
    /\ \A p \in PersonSet : info(p).gender = "m" /\ info(p).role = "student"
    /\ pc = "Result"
    /\ result_status = "INFEASIBLE"
    /\ result.none

-----------------------------------------------------------------------------
\* Scenario A: exactly two students of one gender, no teacher, no forbidden
\* pair, no group cap, one room of capacity 2
ScenarioA ==
    /\ Len(persons) = 2
    /\ students = PersonSet
    /\ \A p, q \in PersonSet : info(p).gender = info(q).gender
    /\ \A p \in PersonSet : info(p).small_group_max = NoCap
    /\ forbidden_pairs = <<>>
    /\ Len(room_ids) = 1
    /\ \A r \in RoomSet : room(r).capacity = 2

\* the two students carry two different class ids
TwoClasses == Cardinality(classes) = 2

(* C15 as stated: in Scenario A, whatever the class ids of the two         *)
(* students, the returned result lists both in the room and its objective  *)
(* is 0.                                                                   *)
C15_ScenarioAObjectiveZero ==
    (ScenarioA /\ Returned) =>
        /\ \A r \in RoomSet : OccupantIds(r) = PersonSet
        /\ result.objective = 0

(* C15: in Scenario A the model has a solution, and every returned result  *)
(* lists both students in the room; its objective is 0 when the two class  *)
(* ids are equal or one of them is None, and 3 (one extra class in the     *)
(* room) when they are two different class ids.                            *)
C15_ScenarioAObjective ==
    ScenarioA =>
        /\ pc # "Building" => model # {}
        /\ Returned =>
            /\ \A r \in RoomSet : OccupantIds(r) = PersonSet
            /\ result.objective = IF TwoClasses THEN 3 ELSE 0

\* Scenario A with both students of class X: both in the room, objective 0
C15_Witness ==
    /\ ScenarioA
    /\ classes = {"X"}
    /\ \A p \in PersonSet : info(p).class_id = "X"
    /\ Returned
    /\ \A r \in RoomSet : OccupantIds(r) = PersonSet
    /\ result.objective = 0

\* Scenario A with a student of class X and one of class Y: the only
\* allocation is returned as optimal with objective 3
C15_TwoClassesCostThree ==
    /\ ScenarioA
    /\ TwoClasses
    /\ Returned
    /\ result.status = "OPTIMAL"
    /\ result.objective = 3

-----------------------------------------------------------------------------
(* C16: the printer counts every incumbent the solver finds, but prints a  *)
(* line only when at least update_interval seconds have passed since the   *)
(* line before (since the creation of the printer, for the first line):    *)
(* any two consecutive lines are at least update_interval apart, and the   *)
(* count a line shows is the number of all incumbents found so far, those  *)
(* that printed nothing included.                                          *)
C16_ReportsAtLeastIntervalApart ==
    /\ solution_count = incumbents
    /\ \A i \in DOMAIN printed :
        /\ printed[i].count = printed[i].found
        /\ printed[i].at - (IF i = 1 THEN start ELSE printed[i - 1].at)
                >= update_interval
    /\ last_print = (IF printed = <<>> THEN start ELSE printed[Len(printed)].at)

\* two lines, with incumbents in between that printed nothing and are
\* counted in the second line
C16_Witness ==
    /\ update_interval > 0
    /\ Len(printed) >= 2
    /\ printed[2].count > printed[1].count + 1
    /\ printed[1].count > 1
    /\ printed[2].at - printed[1].at >= update_interval

-----------------------------------------------------------------------------
(* C17: in every result proved optimal, the class-mix part of the          *)
(* objective is the sum over the rooms of 3 times the number of distinct   *)
(* class ids of the students in the room beyond the first, 0 for a room    *)
(* without occupants: the flags z[r, k] and extra_classes[r] leave it      *)
(* neither above nor below that value.                                     *)
C17_ClassMixExactAtOptimum ==
    (Returned /\ result.status = "OPTIMAL") =>
        ClassMixPart(xval, result.objective) =
            {Sum([r \in RoomSet |-> 3 * ClassMixOf(r)], RoomSet)}

\* an optimum that has to put students of two classes into one room
C17_Witness ==
    /\ Returned
    /\ result.status = "OPTIMAL"
    /\ \E r \in RoomSet : ClassMixOf(r) = 1
    /\ 3 \in ClassMixPart(xval, result.objective)

\* a result that is not proved optimal, one class, a room with students:
\* extra_classes is left above the number of extra classes
C17_SlackWithoutProof ==
    /\ Returned
    /\ result.status = "FEASIBLE"
    /\ \A r \in RoomSet : ClassMixOf(r) = 0
    /\ teachers = {}
    /\ result.objective > 0

-----------------------------------------------------------------------------
\* the persons that carry a small_group_max
Capped == {p \in PersonSet : info(p).small_group_max # NoCap}

(* C18 as stated: for a person p with cap k and a room r, the small-group  *)
(* constraint excludes no capacity-respecting assignment in which p is     *)
(* absent from r, and in an assignment with p in r it holds exactly if     *)
(* r's occupancy is at most k; this for whatever value k has.              *)
C18_VacuousWheneverAbsent ==
    pc = "Solving" =>
        \A p \in Capped : \A r \in RoomSet : \A x \in AssignedX :
            /\ (x[<<p, r>>] = 0 /\ Occupancy(x, r) <= room(r).capacity) =>
                    SmallGroupAt(x, p, r)
            /\ x[<<p, r>>] = 1 =>
                    (SmallGroupAt(x, p, r) <=>
                        Occupancy(x, r) <= info(p).small_group_max[1])

(* C18: for a person p with cap k and a room r, the small-group constraint *)
(* is imposed on every solution whatever the value of k; in an assignment  *)
(* with p in r it holds exactly if r's occupancy is at most k; and if      *)
(* k >= 0 it excludes no capacity-respecting assignment in which p is      *)
(* absent from r.                                                          *)
C18_VacuousWhenAbsentBindingWhenPresent ==
    pc = "Solving" =>
        \A p \in Capped : \A r \in RoomSet :
            /\ \A s \in model : SmallGroupAt(s.x, p, r)
            /\ \A x \in AssignedX :
                /\ (/\ x[<<p, r>>] = 0
                    /\ info(p).small_group_max[1] >= 0
                    /\ Occupancy(x, r) <= room(r).capacity) =>
                        SmallGroupAt(x, p, r)
                /\ x[<<p, r>>] = 1 =>
                        (SmallGroupAt(x, p, r) <=>
                            Occupancy(x, r) <= info(p).small_group_max[1])

\* p1 with cap 1: a solution fills a room without p1 with two persons, and
\* a capacity-respecting assignment with p1 and a second person in one
\* room is excluded
C18_Witness ==
    /\ pc = "Solving"
    /\ "p1" \in Capped
    /\ info("p1").small_group_max = Cap(1)
    /\ \E s \in model : \E r \in RoomSet :
            s.x[<<"p1", r>>] = 0 /\ Occupancy(s.x, r) = 2
    /\ \E x \in AssignedX : \E r \in RoomSet :
            /\ CapacityRespected(x)
            /\ x[<<"p1", r>>] = 1
            /\ Occupancy(x, r) = 2
            /\ ~SmallGroupAt(x, "p1", r)

\* p1 with cap -1: the constraint lowers the capacity of a room that p1 is
\* absent from, which can then not be filled
C18_NegativeCapShrinksOtherRooms ==
    /\ pc = "Solving"
    /\ "p1" \in Capped
    /\ info("p1").small_group_max = Cap(-1)
    /\ \E x \in AssignedX : \E r \in RoomSet :
            /\ CapacityRespected(x)
            /\ x[<<"p1", r>>] = 0
            /\ Occupancy(x, r) = room(r).capacity
            /\ ~SmallGroupAt(x, "p1", r)

-----------------------------------------------------------------------------
\* there is a teacher, but fewer teachers than listed corridors with a room
FewerTeachersThanCorridors ==
    /\ teachers # {}
    /\ Cardinality(teachers)
            < Cardinality({c \in CorridorSet : RoomsOn(c) # {}})

\* a teacher is required on two different corridors out of C
RequiredOnTwoOf(C) ==
    \E t \in teachers : \E c, d \in C :
        c # d /\ t \in RequiredOn(c) /\ t \in RequiredOn(d)

\* an assignment meets the capacity, gender, role, pair and group rules
OtherRulesMet ==
    \E x \in AssignedX :
        /\ CapacityRespected(x)
        /\ GenderSeparated(x)
        /\ ForbiddenPairsSplit(x)
        /\ SmallGroupRespected(x)
        /\ RolesSeparated(x)

(* C19 as stated: solve_assignment returns None whenever there is a        *)
(* teacher but fewer teachers than listed corridors with a room, and       *)
(* whenever one teacher is required on two different corridors.            *)
C19_UncoverableReturnsNone ==
    (/\ pc = "Result"
     /\ \/ FewerTeachersThanCorridors
        \/ RequiredOnTwoOf(DOMAIN required_teachers_per_corridor)) =>
        result.none

(* C19: solve_assignment returns None, the model having no solution,       *)
(* whenever there is a teacher but fewer teachers than listed corridors    *)
(* with a room, and whenever one teacher is required on two different      *)
(* corridors of the corridors list.                                        *)
C19_UncoverableListedReturnsNone ==
    (FewerTeachersThanCorridors \/ RequiredOnTwoOf(CorridorSet)) =>
        /\ pc # "Building" => model = {}
        /\ result.none

\* one teacher, rooms on two listed corridors, nothing required, the other
\* rules can be met: None is returned
C19_Witness ==
    /\ FewerTeachersThanCorridors
    /\ required_teachers_per_corridor = NoRequired
    /\ OtherRulesMet
    /\ pc = "Result"
    /\ result_status = "INFEASIBLE"
    /\ result.none

\* two teachers, one of them required on both listed corridors, the other
\* rules can be met: None is returned
C19_RequiredTwiceReturnsNone ==
    /\ ~FewerTeachersThanCorridors
    /\ RequiredOnTwoOf(CorridorSet)
    /\ OtherRulesMet
    /\ pc = "Result"
    /\ result_status = "INFEASIBLE"
    /\ result.none

\* teacher p1 is required on corridors A and B, and only B is in the
\* corridors list, derived from the rooms: a result is returned
C19_UnlistedCorridorIgnored ==
    /\ CorridorsAsDerived
    /\ corridors = <<"B">>
    /\ "p1" \in teachers
    /\ "p1" \in RequiredOn("A") \cap RequiredOn("B")
    /\ Returned

-----------------------------------------------------------------------------
\* the position of the id p in the people mapping
PositionOf(p) == CHOOSE i \in DOMAIN persons : persons[i] = p

(* C20: in every returned result the keys of allocation are exactly the    *)
(* input room ids that have at least one occupant (no key maps to an empty *)
(* list), the occupants of a room are listed in the order of the people    *)
(* mapping, and every snapshot has exactly the keys id, name, gender, role *)
(* and class_id with that person's input values (the id for a person       *)
(* whose info has no name).                                                *)
C20_AllocationShape ==
    Returned =>
        /\ DOMAIN result.allocation =
                {r \in RoomSet : \E p \in PersonSet : xval[<<p, r>>] = 1}
        /\ \A r \in DOMAIN result.allocation :
            /\ Len(result.allocation[r]) >= 1
            /\ \A i, j \in DOMAIN result.allocation[r] :
                    i < j => PositionOf(result.allocation[r][i].id)
                                < PositionOf(result.allocation[r][j].id)
            /\ \A j \in DOMAIN result.allocation[r] :
                    LET e == result.allocation[r][j]
                    IN  /\ DOMAIN e = {"id", "name", "gender", "role", "class_id"}
                        /\ e.id \in PersonSet
                        /\ xval[<<e.id, r>>] = 1
                        /\ "name" \in DOMAIN info(e.id) => e.name = info(e.id).name
                        /\ "name" \notin DOMAIN info(e.id) => e.name = e.id
                        /\ e.gender = info(e.id).gender
                        /\ e.role = info(e.id).role
                        /\ e.class_id = info(e.id).class_id

\* people given in the order p2, p1: both are listed in one room in that
\* order, under their names, and the other room is no key
C20_Witness ==
    /\ Returned
    /\ persons = <<"p2", "p1">>
    /\ \A i \in DOMAIN people : "name" \in DOMAIN people[i]
    /\ \E r \in RoomSet :
        /\ DOMAIN result.allocation = {r}
        /\ Len(result.allocation[r]) = 2
        /\ result.allocation[r][1].id = "p2"
        /\ result.allocation[r][1].name = "Bilal"
        /\ result.allocation[r][2].id = "p1"
        /\ result.allocation[r][2].name = "Ali"
    /\ Len(room_ids) = 2

====
